---- MODULE Spec2Model ----
(***************************************************************************)
(* Model of the Streamlit chat session of src/app.py.                      *)
(*                                                                         *)
(* Streamlit runs the script top to bottom once for every interaction of  *)
(* the user (a page load, a submitted prompt, a click on the button); the  *)
(* only state that survives a run is st.session_state.  One script run is  *)
(* modelled as a walk of pc through the blocks of the script; the state    *)
(* between two runs is pc = "idle".                                        *)
(***************************************************************************)
EXTENDS Integers, Sequences, FiniteSets, TLC

VARIABLES
    session_keys,   \* the keys present in st.session_state
    messages,       \* st.session_state.messages (<<>> while the key is absent)
    pc,             \* position of the script run; "idle" between two runs
    chat_input,     \* value st.chat_input returns in this run (None or a string)
    button,         \* value st.button("Clear Chat History") returns in this run
    widgets,        \* TRUE iff the last finished run rendered chat_input and the button
    calls,          \* the process_query calls of this run, with their arguments
    result,         \* how the process_query call of this run ended (<<>>: no call ended)
    screen,         \* what this run rendered to the user, in order
    emitted,        \* the log records this run emitted, in order
    full,           \* history: every turn appended since the history was last empty
    pre,            \* history: st.session_state.messages as it stood when this run began
    submits,        \* history: number of submit blocks entered since the last clear
    handlers,       \* logging.getLogger("nl2sql_app").handlers, as the kinds attached
    level,          \* logging.getLogger("nl2sql_app").level
    first_call,     \* history: the first setup_logging call of the process (<<>>: none yet)
    last_call,      \* history: the latest setup_logging call (<<>>: none yet)
    repeated        \* history: TRUE once setup_logging was called more than once

sessionvars == << session_keys, messages, pc, chat_input, button, widgets, calls,
                  result, screen, emitted, full, pre, submits >>

logvars == << handlers, level, first_call, last_call, repeated >>

vars == << session_keys, messages, pc, chat_input, button, widgets, calls,
           result, screen, emitted, full, pre, submits, logvars >>

(***************************************************************************)
(* Bounds of the model and the inputs the environment may supply.          *)
(***************************************************************************)
MaxSubmits == 7

None == "<None>"
Prompts == {"", "q1"}
LogFiles == {None, "", "nl2sql_app.log"}
LogLevels == {"INFO", "debug", "Warning", "ERROR", "critical", "verbose",
              "notset", "basic_format"}
Answers == {"a1", "a2"}
Errors == {"e1", "e2"}

(***************************************************************************)
(* Program constants and pure helpers.                                     *)
(***************************************************************************)
W == 10

HumanMessage(c) == [type |-> "human", content |-> c]

AIMessage(c) == [type |-> "ai", content |-> c]

\* Python's s[-n:] for n > 0: the last n elements, all of s when it is shorter.
LastN(s, n) == IF Len(s) > n THEN SubSeq(s, Len(s) - n + 1, Len(s)) ELSE s

\* Python's s[:-1]: all but the last element (empty for an empty s).
AllButLast(s) == IF Len(s) = 0 THEN s ELSE SubSeq(s, 1, Len(s) - 1)

\* The smaller of two integers.
Min(a, b) == IF a < b THEN a ELSE b

\* Variant of Truthy: only None is rejected (`is not None` instead of truthiness).
TruthyNotNone(p) == p # None

\* Truth value of `prompt := st.chat_input(...)`: None and "" are falsy.
Truthy(p) == p # None /\ p # ""

\* Variant of context_history: the slice [:-1] is forgotten.
context_history_keeps_current(msgs) ==
    IF Len(msgs) > W THEN LastN(msgs, W) ELSE msgs

\* The chat_history argument computed from st.session_state.messages.
context_history(msgs) ==
    LET c == AllButLast(msgs)
    IN  IF Len(c) > W THEN LastN(c, W) ELSE c

\* Variant of TrimHistory: the truncation is forgotten.
TrimNever(msgs) == msgs

\* Variant of TrimHistory: the slice keeps one turn too many ([-11:]).
TrimOffByOne(msgs) == IF Len(msgs) > W THEN LastN(msgs, W + 1) ELSE msgs

\* Variant of TrimHistory: the slice keeps the oldest turns ([:10]).
TrimFromBack(msgs) == IF Len(msgs) > W THEN SubSeq(msgs, 1, W) ELSE msgs

\* Variant of TrimHistory: the slice keeps one turn too few ([-9:]).
TrimToNine(msgs) == IF Len(msgs) > W THEN LastN(msgs, W - 1) ELSE msgs

\* The truncation applied after the assistant turn is appended.
TrimHistory(msgs) == IF Len(msgs) > W THEN LastN(msgs, W) ELSE msgs

\* The f-string shown in the error banner, as its fragments.
error_message(e) ==
    << "An error occurred while processing your request. Please try again. Error: ", e >>

\* Variant of ErrorReply: the exception text is recorded as the turn.
ErrorReplyRaw(e) == AIMessage(e)

\* The turn recorded in the history when process_query raised e.
ErrorReply(e) == AIMessage("Sorry, I encountered an error. Please check the logs.")

\* Variant of ErrorLogRecord: the record is emitted at WARNING severity.
ErrorLogRecordWarning(e) ==
    [level |-> "WARNING", msg |-> << "Error during Streamlit query processing: ", e >>]

\* The record logger.error emits when process_query raised e.
ErrorLogRecord(e) ==
    [level |-> "ERROR", msg |-> << "Error during Streamlit query processing: ", e >>]

LogRecord(severity, msg) == [level |-> severity, msg |-> msg]

\* The role under which the display loop renders a message.
ChatRole(m) == IF m.type = "human" THEN "user" ELSE "assistant"

ChatElement(role, body) == [kind |-> "chat_message", role |-> role, body |-> << body >>]

ErrorElement(body) == [kind |-> "error", role |-> "none", body |-> body]

\* The display loop over st.session_state.messages.
DisplayMessages(msgs) ==
    [i \in 1..Len(msgs) |-> ChatElement(ChatRole(msgs[i]), msgs[i].content)]

(***************************************************************************)
(* setup_logging of src/logger_config.py.                                  *)
(***************************************************************************)
\* The upper-case attributes of Python's logging module whose value is an
\* int, with their values.
LoggingAttrs ==
    [DEBUG |-> 10, INFO |-> 20, WARNING |-> 30, WARN |-> 30, ERROR |-> 40,
     CRITICAL |-> 50, FATAL |-> 50, NOTSET |-> 0]

\* The upper-case attribute of the logging module whose value is a string
\* (the format "%(levelname)s:%(name)s:%(message)s"), which setLevel rejects.
LoggingStrAttrs == {"BASIC_FORMAT"}

\* str.upper() on the level names the model supplies.
Upper(s) ==
    CASE s = "INFO" -> "INFO"
      [] s = "debug" -> "DEBUG"
      [] s = "Warning" -> "WARNING"
      [] s = "ERROR" -> "ERROR"
      [] s = "critical" -> "CRITICAL"
      [] s = "verbose" -> "VERBOSE"
      [] s = "notset" -> "NOTSET"
      [] s = "basic_format" -> "BASIC_FORMAT"

\* getattr(logging, log_level.upper(), logging.INFO), and whether setLevel
\* accepts the value.
LevelLookup(l) ==
    LET n == Upper(l)
    IN  IF n \in LoggingStrAttrs
           THEN [is_level |-> FALSE, value |-> LoggingAttrs.NOTSET]
           ELSE IF n \in DOMAIN LoggingAttrs
                   THEN [is_level |-> TRUE, value |-> LoggingAttrs[n]]
                   ELSE [is_level |-> TRUE, value |-> LoggingAttrs.INFO]

\* Truth value of `if log_file:`.
FileRequested(f) == f # None /\ f # ""

\* Variant of setup_logging: the `if not logger.handlers` guard is missing.
setup_logging_unguarded(hs, lv, f, l, c, file_ok) ==
    LET g == LevelLookup(l)
        console == IF c THEN << "console" >> ELSE << >>
    IN  IF ~g.is_level
           THEN [handlers |-> hs, level |-> lv, outcome |-> "raised"]
           ELSE IF FileRequested(f) /\ ~file_ok
                   THEN [handlers |-> hs \o console, level |-> g.value,
                         outcome |-> "raised"]
                   ELSE [handlers |-> hs \o console \o
                                      (IF FileRequested(f) THEN << "file" >> ELSE << >>),
                         level |-> g.value,
                         outcome |-> IF f = None THEN "raised" ELSE "returned"]

\* setup_logging(log_file = f, log_level = l, console_output = c) on a logger
\* with handlers hs and level lv; file_ok says whether os.makedirs and
\* logging.FileHandler succeed.  The result is the logger's handlers and
\* level after the call and whether the call returned or raised.
setup_logging(hs, lv, f, l, c, file_ok) ==
    LET g == LevelLookup(l)
        console == IF c THEN << "console" >> ELSE << >>
    IN  IF ~g.is_level
           THEN \* line 26: setLevel raises ValueError
                [handlers |-> hs, level |-> lv, outcome |-> "raised"]
           ELSE IF hs = << >> /\ FileRequested(f) /\ ~file_ok
                   THEN \* lines 45-48 raise, after the console handler was added
                        [handlers |-> console, level |-> g.value, outcome |-> "raised"]
                   ELSE [handlers |->
                            IF hs # << >>
                               THEN hs
                               ELSE console \o
                                    (IF FileRequested(f) THEN << "file" >> ELSE << >>),
                         level |-> g.value,
                         \* line 52: os.path.join('logs', None) raises TypeError
                         outcome |-> IF f = None THEN "raised" ELSE "returned"]

\* One setup_logging call on the process-wide logger.
ApplySetup(f, l, c, file_ok) ==
    LET r == setup_logging(handlers, level, f, l, c, file_ok)
    IN  /\ handlers' = r.handlers
        /\ level' = r.level
        /\ last_call' = << [log_file |-> f, log_level |-> l, console_output |-> c,
                            outcome |-> r.outcome] >>
        /\ first_call' = IF first_call = << >> THEN last_call' ELSE first_call
        /\ repeated' = (first_call # << >>)

(***************************************************************************)
(* Initial state: a new browser session, st.session_state is empty and no  *)
(* run of the script has happened yet.                                     *)
(***************************************************************************)
Init ==
    /\ session_keys = {}
    /\ messages = << >>
    /\ pc = "idle"
    /\ chat_input = None
    /\ button = FALSE
    /\ widgets = FALSE
    /\ calls = << >>
    /\ result = << >>
    /\ screen = << >>
    /\ emitted = << >>
    /\ full = << >>
    /\ pre = << >>
    /\ submits = 0
    /\ handlers = << >>
    /\ level = LoggingAttrs.NOTSET
    /\ first_call = << >>
    /\ last_call = << >>
    /\ repeated = FALSE

(***************************************************************************)
(* A script run begins.  From "idle" the run is triggered by a page load   *)
(* (no widget value), by a submitted prompt, or by a click on the button;  *)
(* the widgets can only be used when the last run rendered them.  From     *)
(* "rerun" (st.rerun()) the run carries no widget value.  Line 10 calls     *)
(* setup_logging; when it raises the run ends there with nothing rendered. *)
(***************************************************************************)
StartRun ==
    /\ pc \in {"idle", "rerun"}
    /\ \E file_ok \in BOOLEAN : ApplySetup("nl2sql_app.log", "INFO", TRUE, file_ok)
    /\ \E p \in Prompts \cup {None}, b \in BOOLEAN :
          /\ ~(p # None /\ b)
          /\ (p # None \/ b) => (pc = "idle" /\ widgets)
          /\ Truthy(p) => submits < MaxSubmits
          /\ chat_input' = p
          /\ button' = b
    /\ pc' = IF last_call'[1].outcome = "returned" THEN "init_db" ELSE "idle"
    /\ widgets' = IF last_call'[1].outcome = "returned" THEN widgets ELSE FALSE
    /\ calls' = << >>
    /\ result' = << >>
    /\ screen' = << >>
    /\ emitted' = << >>
    /\ pre' = messages
    /\ UNCHANGED << session_keys, messages, full, submits >>

\* Variant of Stop: st.stop() is missing, the script runs on to the next block.
StopForgotten ==
    /\ pc' = IF pc = "init_db" THEN "init_chain" ELSE "init_messages"
    /\ widgets' = widgets

\* st.stop(): the run ends here, nothing below is executed or rendered.
Stop ==
    /\ pc' = "idle"
    /\ widgets' = FALSE

\* Lines 25-33: the database manager.
InitDbManager ==
    /\ pc = "init_db"
    /\ \/ /\ "db_manager" \in session_keys
          /\ pc' = "init_chain"
          /\ UNCHANGED << session_keys, screen, emitted, widgets >>
       \/ /\ "db_manager" \notin session_keys
          /\ \/ \* DatabaseManager() and get_langchain_db() both succeed
                /\ session_keys' = session_keys \cup {"db_manager", "langchain_sql_db"}
                /\ emitted' = Append(emitted, LogRecord("INFO",
                       << "DatabaseManager and Langchain SQLDatabase initialized in session state." >>))
                /\ pc' = "init_chain"
                /\ UNCHANGED << screen, widgets >>
             \/ \* DatabaseManager() raises, or get_langchain_db() raises after
                \* db_manager was stored
                \E e \in Errors, stored \in BOOLEAN :
                   /\ session_keys' = IF stored THEN session_keys \cup {"db_manager"}
                                                ELSE session_keys
                   /\ screen' = Append(screen,
                          ErrorElement(<< "Failed to connect to the database: ", e >>))
                   /\ emitted' = Append(emitted, LogRecord("CRITICAL",
                          << "Failed to initialize DatabaseManager: ", e >>))
                   /\ Stop
    /\ UNCHANGED << messages, chat_input, button, calls, result, full, pre, submits >>
    /\ UNCHANGED logvars

\* Lines 35-42: the NL2SQL chain.
InitChain ==
    /\ pc = "init_chain"
    /\ \/ /\ "nl2sql_chain" \in session_keys
          /\ pc' = "init_messages"
          /\ UNCHANGED << session_keys, screen, emitted, widgets >>
       \/ /\ "nl2sql_chain" \notin session_keys
          /\ \/ \* NL2SQLChainManager(...) succeeds
                /\ "langchain_sql_db" \in session_keys
                /\ session_keys' = session_keys \cup {"nl2sql_chain"}
                /\ emitted' = Append(emitted, LogRecord("INFO",
                       << "NL2SQLChainManager initialized in session state." >>))
                /\ pc' = "init_messages"
                /\ UNCHANGED << screen, widgets >>
             \/ \* the constructor raises, or st.session_state.langchain_sql_db
                \* is missing and the attribute access raises
                \E e \in Errors :
                   /\ screen' = Append(screen,
                          ErrorElement(<< "Failed to initialize the NL2SQL chain: ", e >>))
                   /\ emitted' = Append(emitted, LogRecord("CRITICAL",
                          << "Failed to initialize NL2SQLChainManager: ", e >>))
                   /\ UNCHANGED session_keys
                   /\ Stop
    /\ UNCHANGED << messages, chat_input, button, calls, result, full, pre, submits >>
    /\ UNCHANGED logvars

\* Variant of InitMessages: the `if "messages" not in st.session_state` guard
\* is missing, the list is created in every run.
InitMessagesAlways ==
    /\ pc = "init_messages"
    /\ session_keys' = session_keys \cup {"messages"}
    /\ messages' = << >>
    /\ emitted' = Append(emitted, LogRecord("INFO",
           << "Chat history initialized in session state." >>))
    /\ screen' = screen \o DisplayMessages(messages')
    /\ pc' = "chat_input"
    /\ UNCHANGED << chat_input, button, widgets, calls, result, full, pre, submits >>
    /\ UNCHANGED logvars

\* Lines 44-55: the messages key, then the display loop.
InitMessages ==
    /\ pc = "init_messages"
    /\ IF "messages" \notin session_keys
          THEN /\ session_keys' = session_keys \cup {"messages"}
               /\ messages' = << >>
               /\ emitted' = Append(emitted, LogRecord("INFO",
                      << "Chat history initialized in session state." >>))
          ELSE UNCHANGED << session_keys, messages, emitted >>
    /\ screen' = screen \o DisplayMessages(messages')
    /\ pc' = "chat_input"
    /\ UNCHANGED << chat_input, button, widgets, calls, result, full, pre, submits >>
    /\ UNCHANGED logvars

(***************************************************************************)
(* Lines 58-95: the submit block, `if prompt := st.chat_input(...)`.       *)
(***************************************************************************)
\* Lines 58-62 with a truthy prompt: the user turn is appended and rendered.
SubmitAppend ==
    /\ pc = "chat_input"
    /\ Truthy(chat_input)
    /\ messages' = Append(messages, HumanMessage(chat_input))
    /\ screen' = Append(screen, ChatElement("user", chat_input))
    /\ full' = Append(full, HumanMessage(chat_input))
    /\ submits' = submits + 1
    /\ pc' = "submit"
    /\ UNCHANGED << session_keys, chat_input, button, widgets, calls, result,
                    emitted, pre >>
    /\ UNCHANGED logvars

\* Line 58 with None or "": the block is skipped.
SubmitSkip ==
    /\ pc = "chat_input"
    /\ ~Truthy(chat_input)
    /\ pc' = "button"
    /\ UNCHANGED << session_keys, messages, chat_input, button, widgets, calls,
                    result, screen, emitted, full, pre, submits >>
    /\ UNCHANGED logvars

\* Lines 71-78: the context is computed and process_query is entered.
CallProcessQuery ==
    /\ pc = "submit"
    /\ calls' = Append(calls, [natural_language_query |-> chat_input,
                               chat_history |-> context_history(messages)])
    /\ pc' = "in_query"
    /\ UNCHANGED << session_keys, messages, chat_input, button, widgets, result,
                    screen, emitted, full, pre, submits >>
    /\ UNCHANGED logvars

\* Lines 75-80: process_query returns a response, which is rendered and appended.
ProcessQueryReturn ==
    /\ pc = "in_query"
    /\ \E r \in Answers :
          /\ result' = << [kind |-> "return", text |-> r] >>
          /\ screen' = Append(screen, ChatElement("assistant", r))
          /\ messages' = Append(messages, AIMessage(r))
          /\ full' = Append(full, AIMessage(r))
    /\ pc' = "answered"
    /\ UNCHANGED << session_keys, chat_input, button, widgets, calls, emitted,
                    pre, submits >>
    /\ UNCHANGED logvars

\* Variant of ProcessQueryRaise: no except clause, the exception ends the run.
ProcessQueryRaiseEscapes ==
    /\ pc = "in_query"
    /\ \E e \in Errors : result' = << [kind |-> "raise", text |-> e] >>
    /\ pc' = "idle"
    /\ UNCHANGED << session_keys, messages, chat_input, button, widgets, calls,
                    screen, emitted, full, pre, submits >>
    /\ UNCHANGED logvars

\* Lines 88-92: process_query raises an Exception e, which is caught.
ProcessQueryRaise ==
    /\ pc = "in_query"
    /\ \E e \in Errors :
          /\ result' = << [kind |-> "raise", text |-> e] >>
          /\ screen' = Append(screen, ErrorElement(error_message(e)))
          /\ emitted' = Append(emitted, ErrorLogRecord(e))
          /\ messages' = Append(messages, ErrorReply(e))
          /\ full' = Append(full, ErrorReply(e))
    /\ pc' = "failed"
    /\ UNCHANGED << session_keys, chat_input, button, widgets, calls, pre, submits >>
    /\ UNCHANGED logvars

\* Lines 84-86: the truncation on the success path.
TrimSuccess ==
    /\ pc = "answered"
    /\ messages' = TrimHistory(messages)
    /\ emitted' = IF Len(messages) > W
                     THEN Append(emitted, LogRecord("INFO",
                              << "Chat history truncated to last 10 messages (5 pairs)." >>))
                     ELSE emitted
    /\ pc' = "button"
    /\ UNCHANGED << session_keys, chat_input, button, widgets, calls, result,
                    screen, full, pre, submits >>
    /\ UNCHANGED logvars

\* Variant of TrimError: the error path does not truncate.
TrimErrorMissing ==
    /\ pc = "failed"
    /\ pc' = "button"
    /\ UNCHANGED << session_keys, messages, chat_input, button, widgets, calls,
                    result, screen, emitted, full, pre, submits >>
    /\ UNCHANGED logvars

\* Lines 94-95: the truncation on the error path.
TrimError ==
    /\ pc = "failed"
    /\ messages' = TrimHistory(messages)
    /\ pc' = "button"
    /\ UNCHANGED << session_keys, chat_input, button, widgets, calls, result,
                    screen, emitted, full, pre, submits >>
    /\ UNCHANGED logvars

(***************************************************************************)
(* Lines 99-102: the Clear Chat History button.                            *)
(***************************************************************************)
\* Variant of ClearHistory: the list is not reset before the rerun.
ClearHistoryKeeps ==
    /\ pc = "button"
    /\ button
    /\ emitted' = Append(emitted, LogRecord("INFO", << "Chat history cleared." >>))
    /\ full' = << >>
    /\ submits' = 0
    /\ widgets' = TRUE
    /\ pc' = "rerun"
    /\ UNCHANGED << session_keys, messages, chat_input, button, calls, result,
                    screen, pre >>
    /\ UNCHANGED logvars

ClearHistory ==
    /\ pc = "button"
    /\ button
    /\ messages' = << >>
    /\ emitted' = Append(emitted, LogRecord("INFO", << "Chat history cleared." >>))
    /\ full' = << >>
    /\ submits' = 0
    /\ widgets' = TRUE
    /\ pc' = "rerun"
    /\ UNCHANGED << session_keys, chat_input, button, calls, result, screen, pre >>
    /\ UNCHANGED logvars

\* The button was not clicked: the script ends, the run is over.
EndRun ==
    /\ pc = "button"
    /\ ~button
    /\ widgets' = TRUE
    /\ pc' = "idle"
    /\ UNCHANGED << session_keys, messages, chat_input, button, calls, result,
                    screen, emitted, full, pre, submits >>
    /\ UNCHANGED logvars

Next ==
    \/ StartRun
    \/ InitDbManager
    \/ InitChain
    \/ InitMessages
    \/ SubmitAppend
    \/ SubmitSkip
    \/ CallProcessQuery
    \/ ProcessQueryReturn
    \/ ProcessQueryRaise
    \/ TrimSuccess
    \/ TrimError
    \/ ClearHistory
    \/ EndRun

Spec == Init /\ [][Next]_vars

\* process_query is a blocking call that returns or raises, and the script
\* thread runs every started run to its end.
RunStep ==
    \/ InitDbManager
    \/ InitChain
    \/ InitMessages
    \/ SubmitAppend
    \/ SubmitSkip
    \/ CallProcessQuery
    \/ ProcessQueryReturn
    \/ ProcessQueryRaise
    \/ TrimSuccess
    \/ TrimError
    \/ ClearHistory
    \/ EndRun
    \/ (pc = "rerun" /\ StartRun)

FairSpec == Spec /\ WF_vars(RunStep)

(***************************************************************************)
(* setup_logging called with arbitrary arguments, any number of times, on  *)
(* the logger of a new process.                                            *)
(***************************************************************************)
ConfigureLogging ==
    /\ \E f \in LogFiles, l \in LogLevels, c \in BOOLEAN, file_ok \in BOOLEAN :
          ApplySetup(f, l, c, file_ok)
    /\ UNCHANGED sessionvars

LogNext == ConfigureLogging

LogSpec == Init /\ [][LogNext]_vars
(***************************************************************************)
(* Properties of the session.                                              *)
(***************************************************************************)
\* The submit block of this run has ended (by the success or the error path).
SubmitReturned == result # << >> /\ pc \in {"button", "idle"}

\* process_query raised in this run.
Raised == result # << >> /\ result[1].kind = "raise"

\* The placeholder the error path records, as written at line 92.
Placeholder == "Sorry, I encountered an error. Please check the logs."

\* C1: once the submit block has finished, by the success path or by the
\* error path, and in every state between two runs, the history holds at
\* most W = 10 turns.
C1_BoundedAfterSubmit ==
    (pc \in {"button", "rerun", "idle"}) => Len(messages) <= W

\* A submit that began with a full history has failed and returned.
C1_Witness ==
    /\ SubmitReturned
    /\ Raised
    /\ Len(pre) = W
    /\ Len(messages) = W

\* C2 as stated: the history length never exceeds W = 10 in any reachable
\* state, the states inside a submit included.
C2_NeverExceedsW == Len(messages) <= W

\* C2 as amended: outside the submit block the history holds at most W
\* turns; inside it the history holds at most W + 1 turns once the user
\* turn is appended and at most W + 2 once the assistant or error turn is
\* appended and the truncation has not run yet.
C2_BoundedPerPosition ==
    /\ pc \in {"submit", "in_query"} => Len(messages) <= W + 1
    /\ pc \in {"answered", "failed"} => Len(messages) <= W + 2
    /\ pc \notin {"submit", "in_query", "answered", "failed"} => Len(messages) <= W

\* The assistant turn was appended to a history that was full when the
\* submit began, and the truncation has not run yet.
C2_Witness ==
    /\ pc = "answered"
    /\ Len(pre) = W
    /\ Len(messages) = W + 2

\* C3: after the N-th submit since the history was last empty the history
\* holds min(2 * N, W) turns, and a submit that began with n turns ends
\* with min(n + 2, W) turns, on the error path as on the success path.
C3_LengthAfterSubmit ==
    SubmitReturned =>
        /\ Len(messages) = Min(2 * submits, W)
        /\ Len(messages) = Min(Len(pre) + 2, W)

\* The sixth submit in a row has failed and returned: twelve turns were
\* appended and ten are kept.
C3_Witness ==
    /\ SubmitReturned
    /\ Raised
    /\ submits = 6
    /\ Len(messages) = W

\* C4: after the truncation the history is exactly the last W turns of
\* everything appended since the history was last empty, in the original
\* order and with unchanged type and content.
C4_KeepsMostRecent ==
    (pc \in {"button", "idle"}) =>
        /\ Len(messages) = Min(Len(full), W)
        /\ \A i \in 1..Len(messages) :
              messages[i] = full[Len(full) - Len(messages) + i]

\* Six submits have succeeded: the history is pairs 2..6, the first pair
\* is gone.
C4_Witness ==
    /\ pc = "idle"
    /\ submits = 6
    /\ Len(full) = 12
    /\ \A i \in 1..6 : full[2 * i].content \in Answers
    /\ full[2].content # full[4].content
    /\ messages = SubSeq(full, 3, 12)

\* C5: the chat_history argument of every process_query call is the history
\* as it stood before the submit (its last min(W, n) turns, in order), so it
\* has at most W entries and ends before the in-flight user turn.
C5_ContextExcludesCurrent ==
    \A k \in 1..Len(calls) :
        LET h == calls[k].chat_history
        IN  /\ Len(h) <= W
            /\ Len(h) = Min(W, Len(pre))
            /\ \A i \in 1..Len(h) : h[i] = pre[Len(pre) - Len(h) + i]
            /\ pc = "in_query" =>
                  /\ Len(messages) = Len(h) + 1
                  /\ messages[Len(messages)] = HumanMessage(chat_input)
                  /\ \A i \in 1..Len(h) : h[i] = messages[i]

\* process_query is running for a submit that began with a full history.
C5_Witness ==
    /\ pc = "in_query"
    /\ Len(calls) = 1
    /\ Len(pre) = W
    /\ Len(calls[1].chat_history) = W
\* C6: when process_query raises, the turn appended to the history is the
\* assistant turn with the fixed placeholder, whatever the exception, and
\* its content is not the exception text.
C6_FixedErrorTurn ==
    (Raised /\ pc \in {"failed", "button", "idle"}) =>
        /\ Len(messages) >= 2
        /\ messages[Len(messages)] = AIMessage(Placeholder)
        /\ messages[Len(messages)].content # result[1].text
        /\ messages[Len(messages) - 1] = HumanMessage(chat_input)

\* process_query raised "e2" and the error turn has just been appended.
C6_Witness ==
    /\ pc = "failed"
    /\ Raised
    /\ result[1].text = "e2"
    /\ messages[Len(messages)].content = Placeholder

\* C7 as stated: when process_query raises, nothing rendered to the user in
\* that run carries the exception text, and the run renders what it would
\* have rendered had any other exception text been raised.
C7_NothingLeaks ==
    Raised =>
        /\ \A i \in 1..Len(screen) : \A j \in 1..Len(screen[i].body) :
              screen[i].body[j] # result[1].text
        /\ \A e \in Errors :
              screen[Len(screen)] = ErrorElement(error_message(e))

\* C8: a submit that has started always comes back to idle (process_query
\* returning or raising); when it does the history is the history before
\* the submit, the user turn and exactly one assistant turn (the answer, or
\* the placeholder when process_query raised), truncated to its last W
\* turns; the exception does not end the run, and the chat input is
\* rendered again for the next submit.
C8_Reply ==
    IF result[1].kind = "return" THEN AIMessage(result[1].text)
                                 ELSE AIMessage(Placeholder)

C8_Extended == pre \o << HumanMessage(chat_input), C8_Reply >>

C8_SubmitCompletes ==
    /\ [](pc \in {"submit", "in_query"} =>
             messages = Append(pre, HumanMessage(chat_input)))
    /\ [](pc \in {"answered", "failed"} =>
             (result # << >> /\ messages = C8_Extended))
    /\ []((pc = "idle" /\ calls # << >>) =>
             /\ result # << >>
             /\ widgets
             /\ Len(messages) = Min(Len(C8_Extended), W)
             /\ \A i \in 1..Len(messages) :
                   messages[i] = C8_Extended[Len(C8_Extended) - Len(messages) + i])
    /\ (pc \in {"submit", "in_query"} ~> (pc = "idle" /\ result # << >>))

\* A submit made right after a failed submit has itself returned to idle.
C8_Witness ==
    /\ pc = "idle"
    /\ result # << >>
    /\ widgets
    /\ Len(pre) >= 2
    /\ pre[Len(pre)] = AIMessage(Placeholder)
    /\ messages = C8_Extended

\* C9: when process_query raises, the run emits a log record at ERROR
\* severity whose message carries the exception text.
C9_ErrorLogged ==
    Raised =>
        \E i \in 1..Len(emitted) :
            /\ emitted[i].level = "ERROR"
            /\ \E j \in 1..Len(emitted[i].msg) : emitted[i].msg[j] = result[1].text

\* process_query raised and the error path has run.
C9_Witness ==
    /\ pc = "failed"
    /\ Raised
    /\ Len(emitted) >= 1
    /\ emitted[Len(emitted)].level = "ERROR"

\* C10: in a run whose submitted prompt is the empty string process_query
\* is not called and the history stays what it was when the run began.
C10_EmptyPromptRejected ==
    chat_input = "" =>
        /\ calls = << >>
        /\ result = << >>
        /\ messages = pre
        /\ pc \notin {"submit", "in_query", "answered", "failed"}

\* A run with the empty prompt has ended on a history that is not empty.
C10_Witness ==
    /\ chat_input = ""
    /\ pc = "idle"
    /\ widgets
    /\ Len(messages) > 0
\* C11: the clear action leaves the history empty whatever it held (nothing,
\* some turns, W turns), it is always possible once the button is clicked,
\* clearing an empty history leaves it empty, and the first submit after a
\* clear behaves as the first submit of a new session: process_query gets
\* an empty chat_history and the history ends as the user turn and its reply.
C11_ClearEmpties ==
    /\ [](pc = "rerun" => messages = << >>)
    /\ []((pc = "button" /\ button) => ENABLED ClearHistory)
    /\ [][(pc = "button" /\ button) => (pc' = "rerun" /\ messages' = << >>)]_vars
    /\ []((submits = 1 /\ calls # << >>) => calls[1].chat_history = << >>)
    /\ []((submits = 1 /\ SubmitReturned) =>
             messages = << HumanMessage(chat_input), C8_Reply >>)

\* A full history has just been cleared.
C11_Witness ==
    /\ pc = "rerun"
    /\ button
    /\ Len(pre) = W
    /\ messages = << >>

\* All three collaborators are stored in st.session_state.
InitCompleted ==
    {"db_manager", "langchain_sql_db", "nl2sql_chain"} \subseteq session_keys

\* C12: as long as initialization has not completed (the database manager,
\* its langchain database or the chain is missing from st.session_state) no
\* run gets past the initialization blocks: no turn is appended, the
\* history is not even created, process_query is not called and the chat
\* input is not rendered.
C12_HaltsBeforeChat ==
    ~InitCompleted =>
        /\ pc \in {"idle", "init_db", "init_chain"}
        /\ messages = << >>
        /\ full = << >>
        /\ calls = << >>
        /\ "messages" \notin session_keys
        /\ ~widgets

\* db_manager is stored but langchain_sql_db is not, and a later run has
\* stopped at the chain initialization.
C12_Witness ==
    /\ pc = "idle"
    /\ "db_manager" \in session_keys
    /\ "langchain_sql_db" \notin session_keys
    /\ Len(screen) = 1
    /\ screen[1].kind = "error"
    /\ screen[1].body[1] = "Failed to initialize the NL2SQL chain: "
\* C17: the history is changed only inside the submit block and by the
\* clear action; a run with no submitted prompt and no click, its display
\* loop and its `if "messages" not in st.session_state` block included,
\* leaves the history as it was when the run began.
C17_OnlySubmitAndClearChange ==
    /\ []((~Truthy(chat_input) /\ ~button) => messages = pre)
    /\ [][messages' # messages =>
             \/ pc = "chat_input" /\ Truthy(chat_input)
             \/ pc \in {"in_query", "answered", "failed"}
             \/ pc = "button" /\ button]_vars

\* A run without prompt and without click has rendered a full history and
\* ended.
C17_Witness ==
    /\ pc = "idle"
    /\ chat_input = None
    /\ ~button
    /\ Len(pre) = W
    /\ Len(screen) = W
    /\ messages = pre

\* C18: outside the submit block the history has even length and
\* alternates human, ai, human, ai, ..., beginning with a human turn and
\* ending with an ai turn, also after the truncation to the last W turns.
C18_AlternatingPairs ==
    (pc \notin {"submit", "in_query", "answered", "failed"}) =>
        /\ Len(messages) % 2 = 0
        /\ \A i \in 1..Len(messages) :
              messages[i].type = IF i % 2 = 1 THEN "human" ELSE "ai"

\* The truncation has dropped the oldest pair of a failed and a successful
\* submit mix, and the session is idle.
C18_Witness ==
    /\ pc = "idle"
    /\ Len(full) = W + 4
    /\ Len(messages) = W
    /\ messages[1].type = "human"
    /\ messages[W].type = "ai"
    /\ \E i \in 1..W : messages[i].content = Placeholder
(***************************************************************************)
(* Properties of setup_logging.                                            *)
(***************************************************************************)
\* Number of handlers of kind k among hs.
SinkCount(hs, k) == Cardinality({i \in 1..Len(hs) : hs[i] = k})

\* C13: after any sequence of setup_logging calls the logger has at most
\* one console handler and at most one file handler; when the first call
\* of the process asked for a file and the console and returned, a later
\* call with the same arguments leaves exactly one console handler and
\* exactly one file handler.
C13_NoDuplicateSinks ==
    /\ SinkCount(handlers, "console") <= 1
    /\ SinkCount(handlers, "file") <= 1
    /\ ( /\ repeated
         /\ first_call[1].outcome = "returned"
         /\ FileRequested(first_call[1].log_file)
         /\ first_call[1].console_output
         /\ last_call = first_call )
       => ( /\ SinkCount(handlers, "console") = 1
            /\ SinkCount(handlers, "file") = 1
            /\ Len(handlers) = 2 )

\* setup_logging was called again with the arguments of the first call,
\* which asked for a file and the console, and returned.
C13_Witness ==
    /\ repeated
    /\ last_call = first_call
    /\ last_call[1].outcome = "returned"
    /\ last_call[1].log_file = "nl2sql_app.log"
    /\ last_call[1].console_output
    /\ handlers = << "console", "file" >>

\* C14 as stated: a call that asks for a file sink either raises or returns
\* with a file handler attached to the logger.
C14_FileSinkOrRaise ==
    ( /\ last_call # << >>
      /\ FileRequested(last_call[1].log_file)
      /\ last_call[1].outcome = "returned" )
    => SinkCount(handlers, "file") >= 1

\* C15 as stated: a call with log_file = None (and a level setLevel accepts)
\* returns the logger, and when it is the first call of the process the
\* logger has no file handler afterwards.
C15_NoneFileReturns ==
    ( /\ last_call # << >>
      /\ last_call[1].log_file = None
      /\ LevelLookup(last_call[1].log_level).is_level )
    => ( /\ last_call[1].outcome = "returned"
         /\ ~repeated => SinkCount(handlers, "file") = 0 )

\* The level the specification assigns to a log_level string: the named
\* level for the five level names in any case, INFO for everything else.
C16_Expected(l) ==
    IF Upper(l) \in {"DEBUG", "INFO", "WARNING", "ERROR", "CRITICAL"}
       THEN LoggingAttrs[Upper(l)]
       ELSE LoggingAttrs.INFO

\* C16 as stated: after a call the logger has the level named by log_level
\* when it is one of the five level names in any case, and INFO for every
\* other string; the level never makes the call raise.
C16_LevelFallback ==
    last_call # << >> =>
        /\ level = C16_Expected(last_call[1].log_level)
        /\ (last_call[1].log_file # None /\ ~FileRequested(last_call[1].log_file))
              => last_call[1].outcome = "returned"

\* The level a call asks for, reading every int attribute of the logging
\* module as a level name and everything else as INFO.
C19_CallLevel(l) ==
    IF Upper(l) \in DOMAIN LoggingAttrs THEN LoggingAttrs[Upper(l)]
                                        ELSE LoggingAttrs.INFO

\* C19 as stated: every call overwrites the logger's level with the level
\* it asks for, and once a handler is attached no call changes the handlers.
C19_SinksFixedLevelOverwritten ==
    [][ /\ handlers # << >> => handlers' = handlers
        /\ last_call' # << >> => level' = C19_CallLevel(last_call'[1].log_level)
      ]_logvars
====
